---- MODULE Spec2Model ----
(***************************************************************************)
(* processInChunks / processInChunksByChunk of process-in-chunks.          *)
(*                                                                         *)
(* The repository holds two revisions of the module that defines the two   *)
(* entry points: src/src/process-in-chunks.ts (no noThrow option: every    *)
(* callback failure is caught and collected) and src/unnamed/part_002      *)
(* (noThrow option: failures are rethrown unless noThrow is set).  The     *)
(* variable impl selects the revision a behaviour runs.                    *)
(*                                                                         *)
(* One behaviour is one call.  JavaScript runs a piece of code to its next *)
(* await without interleaving, so an action is one such piece: Call runs   *)
(* from entry to the first await (or to the return), ItemResume and        *)
(* ChunkResume run from a settled await to the next one (or to the return  *)
(* or the throw).  Settle is the environment settling the promise of one   *)
(* callback invocation, together with the continuation of the per-item     *)
(* async wrapper that awaits it.  Tick advances the clock, TimerFire runs  *)
(* the setTimeout callback of waitSeconds.                                 *)
(***************************************************************************)
EXTENDS Integers, Sequences, FiniteSets, TLC

\* Bounds of the model.
MaxItems == 3
MaxChunkSize == 2
MaxThrottle == 1

\* Milliseconds per second (setTimeout(resolve, numSeconds * 1000)); the clock
\* advances one second at a time.
MsPerSecond == 1000

VARIABLES
  impl,              \* which revision of the module runs
  mode,              \* "item": processInChunks, "chunk": processInChunksByChunk
  allItems,          \* argument allItems
  chunkSize,         \* options.chunkSize
  throttleSeconds,   \* options.throttleSeconds
  noThrow,           \* options.noThrow
  pc,                \* "idle" (not called), "await" (suspended), "done" (settled)
  chunks,            \* const chunks
  index,             \* loop variable index (0-based chunk index)
  overallIndex,      \* let overallIndex
  errorMessagesSet,  \* Set<string>, in insertion order
  results,           \* const results
  itemPromises,      \* item-mode: the wrapper promises of the current chunk
  joined,            \* item-mode: Promise.all(itemPromises)
  processPromise,    \* chunk-mode: the promise awaited for the current chunk
  timer,             \* the waitSeconds promise of the current chunk
  returned,          \* the promise the call returned to its caller
  calls,             \* log of the callback invocations, in invocation order
  settleOrder,       \* the invocations (indices of calls) in the order they settled
  now                \* clock, in milliseconds

vars == <<impl, mode, allItems, chunkSize, throttleSeconds, noThrow, pc, chunks,
          index, overallIndex, errorMessagesSet, results, itemPromises, joined,
          processPromise, timer, returned, calls, settleOrder, now>>

inputs == <<impl, mode, allItems, chunkSize, throttleSeconds, noThrow>>

----------------------------------------------------------------------------
\* Values

Legacy == "process-in-chunks.ts"
Current == "part_002"

Undefined == [t |-> "undefined"]

\* The value a callback returns for its two arguments, when it returns one:
\* the term (v, i), so that results tell which invocation produced them.
Ret(v, i) == [t |-> "value", of |-> v, index |-> i]

\* Failure values a callback can throw or reject with: two Error objects (one
\* with an empty message) and a thrown string.
ErrorValues ==
  { [t |-> "Error", message |-> "A"],
    [t |-> "Error", message |-> ""],
    [t |-> "string", value |-> "A"] }

NoThrowV == [t |-> "none"]

Pending == [state |-> "pending"]

Fulfilled(v) == [state |-> "fulfilled", value |-> v]

Rejected(e) == [state |-> "rejected", reason |-> e]

Range(s) == { s[i] : i \in DOMAIN s }

Min(a, b) == IF a < b THEN a ELSE b

\* ./utils getErrorMessage: the message of an Error, the string form of
\* anything else.
getErrorMessage(err) == IF err.t = "Error" THEN err.message ELSE err.value

\* ./utils chunk: consecutive slices of length size, the last one shorter.
chunk(arr, size) ==
  [k \in 1..((Len(arr) + size - 1) \div size) |->
     SubSeq(arr, (k - 1) * size + 1, Min(k * size, Len(arr)))]

\* optionsDefaults.chunkSize
DefaultChunkSize == 500

\* Mutant of Chunks: the chunkSize option is ignored, the default is used.
Chunks_DefaultSize == chunk(allItems, DefaultChunkSize)

\* Mutant of Chunks: the chunkSize option is ignored, every item is a chunk.
Chunks_PerItem == chunk(allItems, 1)

\* const chunks = chunk(allItems, chunkSize)
Chunks == chunk(allItems, chunkSize)

\* Mutant of waitSeconds: the timer runs twice as long.
waitSeconds_Double(numSeconds) ==
  [state |-> "pending", due |-> now + 2 * numSeconds * MsPerSecond]

\* Mutant of waitSeconds: the timer is due at once.
waitSeconds_Immediate(numSeconds) == [state |-> "pending", due |-> now]

\* waitSeconds(numSeconds): a promise a timer resolves numSeconds * 1000 ms
\* from now.
waitSeconds(numSeconds) ==
  [state |-> "pending", due |-> now + numSeconds * MsPerSecond]

NoTimer == [state |-> "none"]

\* Mutant of SetAdd: an empty message is not recorded.
SetAdd_SkipEmpty(set, m) ==
  IF m = "" \/ m \in Range(set) THEN set ELSE Append(set, m)

\* Mutant of SetAdd: an array push, duplicates kept.
SetAdd_Push(set, m) == Append(set, m)

\* Set.prototype.add on a Set kept in insertion order.
SetAdd(set, m) == IF m \in Range(set) THEN set ELSE Append(set, m)

\* Mutant of ArrayFrom: the messages come out last-inserted first.
ArrayFrom_Reversed(set) == [i \in 1..Len(set) |-> set[Len(set) + 1 - i]]

\* Array.from(errorMessagesSet)
ArrayFrom(set) == set

\* Mutant of Collecting: the noThrow option is ignored.
Collecting_OptionIgnored == impl = Legacy

\* Whether callback failures are caught and collected: the legacy revision
\* has no noThrow option and always collects.
Collecting == impl = Legacy \/ noThrow

----------------------------------------------------------------------------
\* Promise combinators

AllFulfilled(proms) == \A i \in DOMAIN proms : proms[i].state = "fulfilled"

Values(proms) == [i \in DOMAIN proms |-> proms[i].value]

FirstRejected(proms) ==
  CHOOSE i \in DOMAIN proms :
    /\ proms[i].state = "rejected"
    /\ \A j \in DOMAIN proms : proms[j].state = "rejected" => i <= j

\* Promise.all over promises of which some may be settled already: the
\* reactions of the settled ones run in subscription (index) order.
PromiseAll(proms) ==
  IF \E i \in DOMAIN proms : proms[i].state = "rejected"
  THEN Rejected(proms[FirstRejected(proms)].reason)
  ELSE IF AllFulfilled(proms) THEN Fulfilled(Values(proms)) ELSE Pending

\* Mutant of PromiseAllSettle: it fulfils as soon as one input is fulfilled,
\* the inputs still pending counting as failed items.
PromiseAllSettle_FirstFulfilled(all, proms, i) ==
  IF all.state # "pending" THEN all
  ELSE IF proms[i].state = "rejected" THEN Rejected(proms[i].reason)
  ELSE Fulfilled([j \in DOMAIN proms |->
                    IF proms[j].state = "fulfilled" THEN proms[j].value
                    ELSE [success |-> FALSE, result |-> Undefined]])

\* Promise.all when its input i settles: it rejects with the first rejection
\* it sees and fulfils, in index order, once every input is fulfilled.
PromiseAllSettle(all, proms, i) ==
  IF all.state # "pending" THEN all
  ELSE IF proms[i].state = "rejected" THEN Rejected(proms[i].reason)
  ELSE IF AllFulfilled(proms) THEN Fulfilled(Values(proms)) ELSE Pending

\* Mutant of WithThrottle: the delay is started but not awaited.
WithThrottle_NoWait(work, tmr) == work

\* Promise.all([work, waitSeconds(throttleSeconds)]).then(([res]) => res)
WithThrottle(work, tmr) ==
  IF work.state = "rejected" THEN work
  ELSE IF work.state = "fulfilled" /\ tmr.state = "fired" THEN work
  ELSE Pending

\* Mutant of Awaited: the delay is awaited whatever throttleSeconds is.
Awaited_AlwaysThrottled(work, tmr) == WithThrottle(work, tmr)

\* What the loop awaits for the current chunk.
Awaited(work, tmr) ==
  IF throttleSeconds > 0 THEN WithThrottle(work, tmr) ELSE work

StartTimer == IF throttleSeconds > 0 THEN waitSeconds(throttleSeconds) ELSE NoTimer

----------------------------------------------------------------------------
\* The per-item async wrapper of item-mode

\* Mutant of ItemPromise: the callback's promise is not awaited, the wrapper
\* fulfils at once.
ItemPromise_NoAwait(p) ==
  IF p.state = "rejected" /\ ~Collecting THEN Rejected(p.reason)
  ELSE IF p.state = "rejected" THEN Fulfilled([success |-> FALSE, result |-> Undefined])
  ELSE Fulfilled([success |-> TRUE, result |-> Undefined])

\* Mutant of ItemPromise: the catch block returns the error as the result.
ItemPromise_ErrorAsResult(p) ==
  IF p.state = "pending" THEN Pending
  ELSE IF p.state = "fulfilled"
  THEN Fulfilled([success |-> TRUE, result |-> p.value])
  ELSE IF ~Collecting THEN Rejected(p.reason)
  ELSE Fulfilled([success |-> FALSE, result |-> p.reason])

\* Mutant of ItemPromise: the catch block rethrows whatever noThrow says.
ItemPromise_Rethrow(p) ==
  IF p.state = "pending" THEN Pending
  ELSE IF p.state = "fulfilled"
  THEN Fulfilled([success |-> TRUE, result |-> p.value])
  ELSE Rejected(p.reason)

\* The promise of the wrapper, given the promise of the callback it awaits:
\* { success, result } on success; on failure the error is rethrown unless
\* failures are collected.
ItemPromise(p) ==
  IF p.state = "pending" THEN Pending
  ELSE IF p.state = "fulfilled"
  THEN Fulfilled([success |-> TRUE, result |-> p.value])
  ELSE IF ~Collecting THEN Rejected(p.reason)
  ELSE Fulfilled([success |-> FALSE, result |-> Undefined])

\* The catch block's effect on errorMessagesSet.
ItemCatch(set, p) ==
  IF p.state = "rejected" /\ Collecting
  THEN SetAdd(set, getErrorMessage(p.reason))
  ELSE set

RECURSIVE ItemCatchAll(_, _)
\* The catch blocks of the callbacks that throw during items.map, in map order.
ItemCatchAll(set, ps) ==
  IF ps = <<>> THEN set ELSE ItemCatchAll(ItemCatch(set, Head(ps)), Tail(ps))

\* Mutant of PushAll: only the results of successful items are pushed.
PushAll_SkipFailed(res, itemResults) ==
  res \o [i \in 1..Len(SelectSeq(itemResults, LAMBDA r : r.success)) |->
            SelectSeq(itemResults, LAMBDA r : r.success)[i].result]

\* for (const itemResult of itemResults) results.push(itemResult.result)
PushAll(res, itemResults) ==
  res \o [i \in 1..Len(itemResults) |-> itemResults[i].result]

----------------------------------------------------------------------------
\* Return and throw

\* { hasErrors, results, errorMessages? }
ProcessResult(res, errorMessages) ==
  IF Len(errorMessages) = 0
  THEN [kind |-> "ProcessResult", hasErrors |-> FALSE, results |-> res]
  ELSE [kind |-> "ProcessResult", hasErrors |-> TRUE, results |-> res,
        errorMessages |-> errorMessages]

\* The value the call resolves to.
ReturnValue(res, set) ==
  IF ~Collecting
  THEN [kind |-> "array", results |-> res]
  ELSE ProcessResult(res, ArrayFrom(set))

Return(res, oi, set) ==
  /\ pc' = "done"
  /\ returned' = Fulfilled(ReturnValue(res, set))
  /\ results' = res
  /\ overallIndex' = oi
  /\ errorMessagesSet' = set

Throw(err) ==
  /\ pc' = "done"
  /\ returned' = Rejected(err)

----------------------------------------------------------------------------
\* State

Init ==
  /\ impl \in {Legacy, Current}
  /\ mode \in {"item", "chunk"}
  /\ allItems \in { [i \in 1..n |-> i] : n \in 0..MaxItems }
  /\ chunkSize \in 1..MaxChunkSize
  /\ throttleSeconds \in 0..MaxThrottle
  /\ noThrow \in BOOLEAN
  /\ pc = "idle"
  /\ chunks = <<>>
  /\ index = 0
  /\ overallIndex = 0
  /\ errorMessagesSet = <<>>
  /\ results = <<>>
  /\ itemPromises = <<>>
  /\ joined = Pending
  /\ processPromise = Pending
  /\ timer = NoTimer
  /\ returned = Pending
  /\ calls = <<>>
  /\ settleOrder = <<>>
  /\ now = 0

\* One callback invocation: the chunk it belongs to and its position in the
\* chunk (both 0-based), the two arguments it received, its promise, whether
\* it threw synchronously, and when it was invoked.
Invocation(k, pos, v, i, p) ==
  [chunk |-> k, pos |-> pos, value |-> v, index |-> i, promise |-> p,
   sync |-> p.state # "pending", start |-> now]

\* The invocations among invoked (appended to the log after base entries)
\* that threw synchronously, in invocation order.
SyncSettled(base, invoked) ==
  SelectSeq([j \in 1..Len(invoked) |-> base + j],
            LAMBDA c : invoked[c - base].sync)

----------------------------------------------------------------------------
\* processInChunks: the loop from chunk k (0-based) to the next await

\* The index argument of the callback for the item at position pos of the
\* chunk that starts at overall position oi.
\* Mutant of ItemIndexArg: the position within the chunk.
ItemIndexArg_InChunk(oi, pos) == pos

ItemIndexArg(oi, pos) == oi + pos

\* items.map(async (v, idx) => ...): every callback of the chunk is invoked;
\* sync[idx] is the error callback idx throws synchronously, if any.
MapItems(k, items, oi, sync) ==
  [idx \in 1..Len(items) |->
     Invocation(k, idx - 1, items[idx], ItemIndexArg(oi, idx - 1),
                IF sync[idx] = NoThrowV THEN Pending ELSE Rejected(sync[idx]))]

ItemIterate(chs, k, res, oi, set) ==
  IF k >= Len(chs)
  THEN /\ Return(res, oi, set)
       /\ UNCHANGED <<index, itemPromises, joined, processPromise, timer, calls,
                      settleOrder>>
  ELSE \E sync \in [1..Len(chs[k + 1]) -> {NoThrowV} \cup ErrorValues] :
         LET invoked == MapItems(k, chs[k + 1], oi, sync)
             cbs == [idx \in 1..Len(invoked) |-> invoked[idx].promise]
             proms == [idx \in 1..Len(invoked) |-> ItemPromise(cbs[idx])]
         IN /\ calls' = calls \o invoked
            /\ settleOrder' = settleOrder \o SyncSettled(Len(calls), invoked)
            /\ itemPromises' = proms
            /\ joined' = PromiseAll(proms)
            /\ errorMessagesSet' = ItemCatchAll(set, cbs)
            /\ timer' = StartTimer
            /\ index' = k
            /\ results' = res
            /\ overallIndex' = oi
            /\ pc' = "await"
            /\ UNCHANGED <<processPromise, returned>>

\* The await of the chunk's promises settles: the results are pushed and the
\* loop goes on, or the rejection is thrown out of the call.
ItemResume ==
  /\ pc = "await"
  /\ mode = "item"
  /\ LET a == Awaited(joined, timer)
     IN /\ a.state # "pending"
        /\ IF a.state = "rejected"
           THEN /\ Throw(a.reason)
                /\ UNCHANGED <<index, overallIndex, errorMessagesSet, results,
                               itemPromises, joined, processPromise, timer, calls,
                               settleOrder>>
           ELSE ItemIterate(chunks, index + 1, PushAll(results, a.value),
                            overallIndex + Len(chunks[index + 1]),
                            errorMessagesSet)
  /\ UNCHANGED <<inputs, chunks, now>>

----------------------------------------------------------------------------
\* processInChunksByChunk: the loop from chunk k (0-based) to the next await

\* The index argument of the callback for chunk k: the legacy revision passes
\* overallIndex, the current one the chunk index.
ChunkIndexArg(k, oi) == IF impl = Legacy THEN oi ELSE k

\* overallIndex after one more chunk (the current revision has no such
\* variable in processInChunksByChunk).
ChunkAdvance(oi, n) == IF impl = Legacy THEN oi + n * chunkSize ELSE oi

RECURSIVE ChunkCatchAll(_, _)
\* The catch blocks of consecutive chunks whose callbacks throw synchronously.
ChunkCatchAll(set, errs) ==
  IF errs = <<>> THEN set
  ELSE ChunkCatchAll(SetAdd(set, getErrorMessage(Head(errs))), Tail(errs))

\* The callbacks of the n chunks from k on throw errs synchronously: each is
\* caught before waitSeconds is called, so the loop goes on without awaiting.
ThrownChunks(chs, k, oi, n, errs) ==
  [j \in 1..n |->
     Invocation(k + j - 1, 0, chs[k + j], ChunkIndexArg(k + j - 1, ChunkAdvance(oi, j - 1)),
                Rejected(errs[j]))]

ChunkIterate(chs, k, res, oi, set) ==
  \E n \in 0..(Len(chs) - k) :
  \E errs \in [1..n -> ErrorValues] :
    LET thrown == ThrownChunks(chs, k, oi, n, errs)
        res2 == res \o [j \in 1..n |-> Undefined]
        set2 == ChunkCatchAll(set, errs)
        oi2 == ChunkAdvance(oi, n)
        k2 == k + n
    IN IF n > 0 /\ ~Collecting
       THEN /\ n = 1
            /\ Throw(errs[1])
            /\ calls' = calls \o thrown
            /\ settleOrder' = settleOrder \o SyncSettled(Len(calls), thrown)
            /\ index' = k
            /\ results' = res
            /\ overallIndex' = oi
            /\ errorMessagesSet' = set
            /\ UNCHANGED <<itemPromises, joined, processPromise, timer>>
       ELSE IF k2 >= Len(chs)
       THEN /\ Return(res2, oi2, set2)
            /\ calls' = calls \o thrown
            /\ settleOrder' = settleOrder \o SyncSettled(Len(calls), thrown)
            /\ index' = IF n > 0 THEN k2 - 1 ELSE index
            /\ UNCHANGED <<itemPromises, joined, processPromise, timer>>
       ELSE /\ calls' = calls \o thrown \o
                          <<Invocation(k2, 0, chs[k2 + 1], ChunkIndexArg(k2, oi2), Pending)>>
            /\ settleOrder' = settleOrder \o SyncSettled(Len(calls), thrown)
            /\ processPromise' = Pending
            /\ timer' = StartTimer
            /\ index' = k2
            /\ results' = res2
            /\ overallIndex' = oi2
            /\ errorMessagesSet' = set2
            /\ pc' = "await"
            /\ UNCHANGED <<itemPromises, joined, returned>>

\* The await of the chunk's promise settles: the result is pushed, or the
\* catch block runs, and the loop goes on.
ChunkResume ==
  /\ pc = "await"
  /\ mode = "chunk"
  /\ LET a == Awaited(processPromise, timer)
     IN /\ a.state # "pending"
        /\ IF a.state = "rejected"
           THEN IF ~Collecting
                THEN /\ Throw(a.reason)
                     /\ UNCHANGED <<index, overallIndex, errorMessagesSet, results,
                                    itemPromises, joined, processPromise, timer, calls,
                                    settleOrder>>
                ELSE ChunkIterate(chunks, index + 1, Append(results, Undefined),
                                  ChunkAdvance(overallIndex, 1),
                                  SetAdd(errorMessagesSet, getErrorMessage(a.reason)))
           ELSE ChunkIterate(chunks, index + 1, Append(results, a.value),
                             ChunkAdvance(overallIndex, 1), errorMessagesSet)
  /\ UNCHANGED <<inputs, chunks, now>>

----------------------------------------------------------------------------
\* The call, the environment and the clock

\* processInChunks(allItems, processFn, options) or
\* processInChunksByChunk(allItems, processFn, options) is called.
Call ==
  /\ pc = "idle"
  /\ chunks' = Chunks
  /\ IF mode = "item"
     THEN ItemIterate(chunks', 0, <<>>, 0, <<>>)
     ELSE ChunkIterate(chunks', 0, <<>>, 0, <<>>)
  /\ UNCHANGED <<inputs, now>>

\* The outcomes of a callback invoked with (v, i): it returns the value it
\* computes from its arguments, returns undefined, or fails.
Outcomes(v, i) ==
  {Fulfilled(Ret(v, i)), Fulfilled(Undefined)} \cup { Rejected(e) : e \in ErrorValues }

\* The promise of invocation c settles; in item-mode the async wrapper that
\* awaits it runs on, and Promise.all sees the wrapper settle.
Settle(c) ==
  /\ calls[c].promise.state = "pending"
  /\ \E p \in Outcomes(calls[c].value, calls[c].index) :
       /\ calls' = [calls EXCEPT ![c].promise = p]
       /\ settleOrder' = Append(settleOrder, c)
       /\ IF mode = "item" /\ calls[c].chunk = index
          THEN LET idx == calls[c].pos + 1
                   proms == [itemPromises EXCEPT ![idx] = ItemPromise(p)]
               IN /\ itemPromises' = proms
                  /\ joined' = PromiseAllSettle(joined, proms, idx)
                  /\ errorMessagesSet' = ItemCatch(errorMessagesSet, p)
                  /\ UNCHANGED processPromise
          ELSE IF mode = "chunk" /\ calls[c].chunk = index
          THEN /\ processPromise' = p
               /\ UNCHANGED <<itemPromises, joined, errorMessagesSet>>
          ELSE UNCHANGED <<itemPromises, joined, errorMessagesSet, processPromise>>
  /\ UNCHANGED <<inputs, pc, chunks, index, overallIndex, results, timer,
                 returned, now>>

\* A continuation of the call is ready to run (it runs before any timer).
Runnable ==
  /\ pc = "await"
  /\ Awaited(IF mode = "item" THEN joined ELSE processPromise, timer).state # "pending"

\* The setTimeout callback of waitSeconds runs.
TimerFire ==
  /\ timer.state = "pending"
  /\ now >= timer.due
  /\ ~Runnable
  /\ timer' = [state |-> "fired"]
  /\ UNCHANGED <<inputs, pc, chunks, index, overallIndex, errorMessagesSet,
                 results, itemPromises, joined, processPromise, returned, calls,
                 settleOrder, now>>

\* One second passes while the call is suspended.  The clock is read by
\* nothing but the timer, so it advances only up to the time the pending timer
\* is due; a callback that outlasts the delay settles after TimerFire.
Tick ==
  /\ pc = "await"
  /\ ~Runnable
  /\ timer.state = "pending"
  /\ now < timer.due
  /\ now' = now + MsPerSecond
  /\ UNCHANGED <<inputs, pc, chunks, index, overallIndex, errorMessagesSet,
                 results, itemPromises, joined, processPromise, timer, returned, calls,
                 settleOrder>>

Next ==
  \/ Call
  \/ ItemResume
  \/ ChunkResume
  \/ \E c \in DOMAIN calls : Settle(c)
  \/ TimerFire
  \/ Tick

Spec == Init /\ [][Next]_vars

\* The current revision alone.
SpecCurrent == Init /\ impl = Current /\ [][Next]_vars

----------------------------------------------------------------------------
\* Vocabulary of the properties

Done == pc = "done"

Resolved == returned.state = "fulfilled"

Failed(c) == calls[c].promise.state = "rejected"

Succeeded(c) == calls[c].promise.state = "fulfilled"

InFlight == { c \in DOMAIN calls : calls[c].promise.state = "pending" }

AnyFailed == \E c \in DOMAIN calls : Failed(c)

\* Units of work: the items in item-mode, the chunks in chunk-mode.
NumUnits ==
  IF mode = "item" THEN Len(allItems)
  ELSE (Len(allItems) + chunkSize - 1) \div chunkSize

ItemPosition(v) == CHOOSE i \in DOMAIN allItems : allItems[i] = v

\* The unit (1-based) invocation c worked on, told from the value it received.
UnitOf(c) ==
  IF mode = "item" THEN ItemPosition(calls[c].value)
  ELSE (ItemPosition(calls[c].value[1]) - 1) \div chunkSize + 1

\* results of the value the call resolved to.
ResultsOf(v) == v.results

\* errorMessages of the value the call resolved to (absent: none).
MessagesOf(v) == IF "errorMessages" \in DOMAIN v THEN v.errorMessages ELSE <<>>

----------------------------------------------------------------------------
\* C1: in fail-fast mode (noThrow false), in item-mode and chunk-mode, a call
\* during which a unit's callback failed rejects with the error value of a
\* failed unit, unwrapped, and never resolves.
C1_FailFastRejects ==
  (~noThrow /\ Done /\ AnyFailed) =>
     /\ returned.state = "rejected"
     /\ \E c \in DOMAIN calls : Failed(c) /\ calls[c].promise.reason = returned.reason

\* C1 for the current revision alone (SpecCurrent).
C1_CurrentRejects == impl = Current => C1_FailFastRejects

C1_Witness ==
  /\ impl = Current /\ ~noThrow /\ Done /\ AnyFailed
  /\ returned.state = "rejected"

\* C2: in collect mode (noThrow true), in item-mode and chunk-mode, the call
\* never rejects whatever units fail, also when callbacks throw synchronously:
\* it settles by resolving to a ProcessResult.
C2_CollectNeverRejects ==
  noThrow =>
     /\ returned.state # "rejected"
     /\ Done => (Resolved /\ returned.value.kind = "ProcessResult")

C2_Witness ==
  /\ noThrow /\ Done /\ Resolved
  /\ Len(calls) >= 2
  /\ \A c \in DOMAIN calls : Failed(c)
  /\ \E c \in DOMAIN calls : calls[c].sync
  /\ \E c \in DOMAIN calls : ~calls[c].sync

\* C3: item-mode, default (fail-fast) configuration, every callback succeeds:
\* the call resolves to a plain sequence as long as the input whose i-th
\* element is what the callback returned for the i-th item, whatever the
\* chunkSize and the completion order.
C3_PlainSequenceInItemOrder ==
  (mode = "item" /\ ~noThrow /\ Done /\ ~AnyFailed) =>
     /\ Resolved
     /\ returned.value.kind = "array"
     /\ Len(ResultsOf(returned.value)) = Len(allItems)
     /\ \A c \in DOMAIN calls :
          ResultsOf(returned.value)[UnitOf(c)] = calls[c].promise.value
     /\ \A i \in DOMAIN allItems : \E c \in DOMAIN calls : UnitOf(c) = i

\* C3 for the current revision alone (SpecCurrent).
C3_CurrentPlainSequence == impl = Current => C3_PlainSequenceInItemOrder

C3_Witness ==
  /\ impl = Current /\ mode = "item" /\ ~noThrow /\ Done /\ Resolved
  /\ Len(chunks) >= 2
  /\ \E i \in 1..(Len(settleOrder) - 1) : settleOrder[i] > settleOrder[i + 1]

\* C4: in collect mode results has one slot per unit, in unit order: the slot of
\* a unit whose callback failed is undefined, the slot of any other unit holds
\* what its callback returned, whatever the completion order.
C4_OneSlotPerUnit ==
  (noThrow /\ Done) =>
     /\ Resolved
     /\ Len(ResultsOf(returned.value)) = NumUnits
     /\ \A u \in 1..NumUnits : \E c \in DOMAIN calls : UnitOf(c) = u
     /\ \A c \in DOMAIN calls :
          ResultsOf(returned.value)[UnitOf(c)] =
            IF Failed(c) THEN Undefined ELSE calls[c].promise.value

C4_Witness ==
  /\ noThrow /\ Done /\ Resolved
  /\ NumUnits >= 2
  /\ \E c, d \in DOMAIN calls :
       /\ Failed(c) /\ Succeeded(d) /\ calls[d].promise.value # Undefined
       /\ UnitOf(c) < UnitOf(d)
  /\ \E i \in 1..(Len(settleOrder) - 1) : settleOrder[i] > settleOrder[i + 1]

\* C5 as stated: in collect mode a slot of results is undefined exactly where
\* the unit's callback failed, also for callbacks that return undefined.
C5_UndefinedIffFailed ==
  (noThrow /\ Done) =>
     \A c \in DOMAIN calls :
        ResultsOf(returned.value)[UnitOf(c)] = Undefined <=> Failed(c)

\* C5 amended: in collect mode a slot of results is undefined exactly where
\* the unit's callback failed or returned undefined; a slot that is not
\* undefined belongs to a unit that succeeded.
C5_UndefinedIffFailedOrReturnedUndefined ==
  (noThrow /\ Done) =>
     \A c \in DOMAIN calls :
        ResultsOf(returned.value)[UnitOf(c)] = Undefined <=>
          (Failed(c) \/ (Succeeded(c) /\ calls[c].promise.value = Undefined))

C5_Witness ==
  /\ noThrow /\ Done /\ Resolved
  /\ \E c, d, e \in DOMAIN calls :
       /\ Succeeded(c) /\ calls[c].promise.value = Undefined
       /\ Failed(d)
       /\ Succeeded(e) /\ calls[e].promise.value # Undefined

\* C6: in collect mode hasErrors is true exactly when some unit's callback
\* failed; when true errorMessages is a non-empty list; when false results has
\* one slot per unit holding the unit's return value and the errorMessages
\* field is absent.  Also for a failure whose message is the empty string.
C6_HasErrorsIffFailed ==
  (noThrow /\ Done) =>
     LET v == returned.value
     IN /\ v.hasErrors <=> AnyFailed
        /\ v.hasErrors => ("errorMessages" \in DOMAIN v /\ Len(v.errorMessages) > 0)
        /\ ~v.hasErrors =>
             /\ "errorMessages" \notin DOMAIN v
             /\ Len(v.results) = NumUnits
             /\ \A c \in DOMAIN calls :
                  Succeeded(c) /\ v.results[UnitOf(c)] = calls[c].promise.value

C6_Witness ==
  /\ noThrow /\ Done /\ Resolved
  /\ returned.value.hasErrors
  /\ returned.value.errorMessages = <<"">>
  /\ \E c \in DOMAIN calls : Succeeded(c)

\* The messages of the units that failed.
FailedMessages ==
  { getErrorMessage(calls[c].promise.reason) : c \in { d \in DOMAIN calls : Failed(d) } }

\* C7: in collect mode errorMessages holds exactly the messages of the failed
\* units, each once however many units raised it.
C7_MessagesExactlyOnce ==
  (noThrow /\ Done) =>
     LET ms == MessagesOf(returned.value)
     IN /\ Range(ms) = FailedMessages
        /\ \A i, j \in DOMAIN ms : ms[i] = ms[j] => i = j

C7_Witness ==
  /\ noThrow /\ Done /\ Resolved
  /\ Len(MessagesOf(returned.value)) = 2
  /\ \E c, d \in DOMAIN calls :
       /\ c # d /\ Failed(c) /\ Failed(d)
       /\ calls[c].promise.reason # calls[d].promise.reason
       /\ getErrorMessage(calls[c].promise.reason) = getErrorMessage(calls[d].promise.reason)

\* The lowest unit whose callback failed with message m.
FirstUnit(m) ==
  CHOOSE u \in 1..NumUnits :
    /\ \E c \in DOMAIN calls :
         UnitOf(c) = u /\ Failed(c) /\ getErrorMessage(calls[c].promise.reason) = m
    /\ \A c \in DOMAIN calls :
         (Failed(c) /\ getErrorMessage(calls[c].promise.reason) = m) => u <= UnitOf(c)

\* The chunk (0-based) of unit u.
ChunkOfUnit(u) == IF mode = "item" THEN (u - 1) \div chunkSize ELSE u - 1

\* When (position in settleOrder) a callback first failed with message m.
FirstFailure(m) ==
  CHOOSE i \in DOMAIN settleOrder :
    /\ Failed(settleOrder[i])
    /\ getErrorMessage(calls[settleOrder[i]].promise.reason) = m
    /\ \A j \in 1..(i - 1) :
         ~(Failed(settleOrder[j]) /\
           getErrorMessage(calls[settleOrder[j]].promise.reason) = m)

\* C8 as stated: in collect mode errorMessages is ordered by the lowest unit
\* index that raised each message, in chunk-mode and in item-mode.
C8_OrderByUnitIndex ==
  (noThrow /\ Done) =>
     LET ms == MessagesOf(returned.value)
     IN \A i, j \in DOMAIN ms : FirstUnit(ms[i]) < FirstUnit(ms[j]) => i < j

\* C8 amended: in collect mode errorMessages is ordered by the time each
\* message was first raised; so a message first raised in an earlier chunk
\* precedes one first raised in a later chunk, and in chunk-mode the order is
\* the order of the lowest failing unit.
C8_OrderByFirstFailure ==
  (noThrow /\ Done) =>
     LET ms == MessagesOf(returned.value)
     IN \A i, j \in DOMAIN ms :
          /\ FirstFailure(ms[i]) < FirstFailure(ms[j]) => i < j
          /\ ChunkOfUnit(FirstUnit(ms[i])) < ChunkOfUnit(FirstUnit(ms[j])) => i < j
          /\ (mode = "chunk" /\ FirstUnit(ms[i]) < FirstUnit(ms[j])) => i < j

C8_Witness ==
  /\ noThrow /\ Done /\ Resolved /\ mode = "item"
  /\ Len(MessagesOf(returned.value)) = 2
  /\ FirstUnit(MessagesOf(returned.value)[2]) < FirstUnit(MessagesOf(returned.value)[1])

\* C9: in collect mode and on the success path of fail-fast mode, no callback
\* of a later chunk is invoked while a callback of an earlier chunk has not
\* settled.
C9_ChunksInSequence ==
  (noThrow \/ ~AnyFailed) =>
     \A c, d \in DOMAIN calls :
        ChunkOfUnit(UnitOf(c)) < ChunkOfUnit(UnitOf(d)) => c \notin InFlight

C9_Witness ==
  /\ noThrow /\ mode = "item" /\ chunkSize >= 2
  /\ \E c, d, e \in DOMAIN calls :
       /\ ChunkOfUnit(UnitOf(c)) = ChunkOfUnit(UnitOf(d)) /\ c # d
       /\ Failed(c) /\ Succeeded(d)
       /\ ChunkOfUnit(UnitOf(c)) < ChunkOfUnit(UnitOf(e))
       /\ e \in InFlight

\* C10: in item-mode the callbacks invoked and not yet settled never number
\* more than chunkSize, in both error modes, also after a fail-fast rejection.
C10_InFlightAtMostChunkSize ==
  mode = "item" => Cardinality(InFlight) <= chunkSize

C10_Witness ==
  /\ mode = "item" /\ impl = Current /\ ~noThrow
  /\ returned.state = "rejected"
  /\ InFlight # {}
  /\ Len(calls) < Len(allItems)

\* The chunk (0-based) invocation c worked on.
ChunkOfCall(c) == ChunkOfUnit(UnitOf(c))

\* The invocations a step adds to the log.
NewCalls == (DOMAIN calls') \ (DOMAIN calls)

\* C11: in fail-fast mode (noThrow false), once a unit of chunk k has failed,
\* no callback is invoked for a unit of a later chunk (item-mode and
\* chunk-mode).
C11_NoLaterChunkAfterFailure ==
  [][~noThrow =>
       \A d \in NewCalls : \A c \in DOMAIN calls' :
          calls'[c].promise.state = "rejected" => ChunkOfCall(d)' <= ChunkOfCall(c)']_vars

\* C11 for the current revision alone (SpecCurrent).
C11_CurrentNoLaterChunk ==
  [][(impl = Current /\ ~noThrow) =>
       \A d \in NewCalls : \A c \in DOMAIN calls' :
          calls'[c].promise.state = "rejected" => ChunkOfCall(d)' <= ChunkOfCall(c)']_vars

\* Invocation d was made no callback of an earlier chunk being in flight and
\* at least throttleSeconds after every callback of an earlier chunk was.
SpacedAfterEarlierChunks(d) ==
  \A c \in DOMAIN calls :
     ChunkOfCall(c) < ChunkOfCall(d) =>
        /\ c \notin InFlight
        /\ calls[d].start >= calls[c].start + throttleSeconds * MsPerSecond

\* C12: item-mode with throttleSeconds = s > 0: no callback of a later chunk is
\* invoked until every callback of the earlier chunk has settled and s seconds
\* have passed since the earlier chunk was started, also when items fail under
\* collect mode.
C12_ItemChunksThrottled ==
  (mode = "item" /\ throttleSeconds > 0) =>
     \A d \in DOMAIN calls : SpacedAfterEarlierChunks(d)

C12_Witness ==
  /\ mode = "item" /\ throttleSeconds > 0 /\ noThrow
  /\ \E c, d \in DOMAIN calls :
       /\ ChunkOfCall(c) < ChunkOfCall(d)
       /\ Failed(c)
       /\ calls[d].start = calls[c].start + throttleSeconds * MsPerSecond

\* C13: chunk-mode with throttleSeconds = s > 0: the callback of a later chunk
\* is not invoked until the callback of the earlier chunk has settled and s
\* seconds have passed since it was invoked, also when the earlier callback
\* fails under collect mode.
C13_ChunkCallbacksThrottled ==
  (mode = "chunk" /\ throttleSeconds > 0) =>
     \A d \in DOMAIN calls : SpacedAfterEarlierChunks(d)

\* C14: the item-mode callback for the item at 0-based position p of the input
\* receives index p, whatever the chunk size, in later and shorter chunks, and
\* in collect mode also after earlier items failed.
C14_ItemIndexIsPosition ==
  mode = "item" => \A c \in DOMAIN calls : calls[c].index = UnitOf(c) - 1

C14_Witness ==
  /\ mode = "item" /\ noThrow /\ chunkSize = 2 /\ Len(allItems) = 3
  /\ \E c, d \in DOMAIN calls :
       /\ Failed(c) /\ ChunkOfCall(c) = 0
       /\ ChunkOfCall(d) = 1 /\ calls[d].index = 2

\* C15: the chunk-mode callback for the k-th chunk (0-based) receives index k,
\* the number of the chunk and not an item offset, also after earlier chunks
\* failed in collect mode.
C15_ChunkIndexIsChunkNumber ==
  mode = "chunk" => \A c \in DOMAIN calls : calls[c].index = ChunkOfCall(c)

\* C15 for the current revision alone (SpecCurrent).
C15_CurrentChunkIndex ==
  (impl = Current /\ mode = "chunk") =>
     \A c \in DOMAIN calls : calls[c].index = ChunkOfCall(c)

\* The number of chunks the input is split into.
NumChunks == (Len(allItems) + chunkSize - 1) \div chunkSize

\* C16: with throttleSeconds = s > 0 and k >= 1 chunks whose callbacks all
\* succeed, one delay is awaited per chunk, the last one included: the call
\* resolves no earlier than k * s seconds after it was made.
C16_DelayPerChunk ==
  (throttleSeconds > 0 /\ Done /\ ~AnyFailed /\ Len(allItems) >= 1) =>
     /\ Resolved
     /\ now >= NumChunks * throttleSeconds * MsPerSecond

C16_Witness ==
  /\ throttleSeconds > 0 /\ Done /\ Resolved /\ ~AnyFailed
  /\ NumChunks >= 2
  /\ Len(calls) = NumUnits
  /\ now = NumChunks * throttleSeconds * MsPerSecond

\* What a call with an empty input resolves to: the empty sequence in
\* fail-fast mode, a result without errors in collect mode.
EmptyOutcome ==
  IF noThrow
  THEN Fulfilled([kind |-> "ProcessResult", hasErrors |-> FALSE, results |-> <<>>])
  ELSE Fulfilled([kind |-> "array", results |-> <<>>])

\* C17: with an empty input the callback is never invoked and the call
\* resolves to the empty sequence in fail-fast mode and to a result with
\* hasErrors false and empty results in collect mode, for every chunkSize and
\* throttleSeconds; no throttle delay is awaited.
C17_EmptyInput ==
  (Len(allItems) = 0 /\ pc # "idle") =>
     /\ Done
     /\ calls = <<>>
     /\ returned = EmptyOutcome
     /\ timer = NoTimer /\ now = 0

\* C17 for the current revision alone (SpecCurrent).
C17_CurrentEmptyInput ==
  (impl = Current /\ Len(allItems) = 0 /\ pc # "idle") =>
     /\ Done
     /\ calls = <<>>
     /\ returned = EmptyOutcome
     /\ timer = NoTimer /\ now = 0

RECURSIVE HandedBefore(_)
\* The number of items in the chunks handed to the invocations before c.
HandedBefore(c) ==
  IF c = 1 THEN 0 ELSE HandedBefore(c - 1) + Len(calls[c - 1].value)

\* C18: the chunks handed to the chunk-mode callback, in invocation order, are
\* contiguous non-overlapping slices of the input: each has chunkSize items
\* except possibly the last, which has between 1 and chunkSize, and once the
\* call has resolved their concatenation is the input.
C18_ChunksAreSlices ==
  mode = "chunk" =>
     /\ \A c \in DOMAIN calls :
          LET items == calls[c].value
              from == HandedBefore(c)
          IN /\ Len(items) >= 1 /\ Len(items) <= chunkSize
             /\ from + Len(items) <= Len(allItems)
             /\ items = SubSeq(allItems, from + 1, from + Len(items))
             /\ Len(items) < chunkSize => from + Len(items) = Len(allItems)
     /\ (Done /\ Resolved) => HandedBefore(Len(calls) + 1) = Len(allItems)

C18_Witness ==
  /\ mode = "chunk" /\ Done /\ Resolved
  /\ Len(allItems) = 3 /\ chunkSize = 2
  /\ Len(calls) = 2
  /\ calls[1].value = <<1, 2>> /\ calls[2].value = <<3>>

\* The units whose callback has been invoked.
InvokedUnits == { UnitOf(c) : c \in DOMAIN calls }

\* C19: no unit's callback is invoked twice (item-mode and chunk-mode), and in
\* collect mode (noThrow true) a finished call has invoked the callback of
\* every unit exactly once, whatever failures occurred.
C19_EveryUnitOnce ==
  /\ \A c, d \in DOMAIN calls : UnitOf(c) = UnitOf(d) => c = d
  /\ (noThrow /\ Done) =>
        /\ InvokedUnits = 1..NumUnits
        /\ Len(calls) = NumUnits

C19_Witness ==
  /\ noThrow /\ Done
  /\ NumUnits >= 2
  /\ Len(calls) = NumUnits
  /\ Failed(1)
  /\ \E c \in DOMAIN calls : Succeeded(c)

\* The call has rejected, or its rejection is the continuation that runs next
\* (before any timer fires or time passes).
RejectsNext ==
  \/ Done /\ returned.state = "rejected"
  \/ /\ Runnable
     /\ Awaited(IF mode = "item" THEN joined ELSE processPromise, timer).state = "rejected"

\* C20: in fail-fast mode (noThrow false) the call rejects as soon as the first
\* failing callback rejects: it waits neither for the sibling callbacks still
\* in flight nor, with throttleSeconds > 0, for the throttle delay (item-mode
\* and chunk-mode).
C20_RejectsAtFirstFailure ==
  (~noThrow /\ AnyFailed) => RejectsNext

\* C20 for the current revision alone (SpecCurrent).
C20_CurrentRejectsAtFirstFailure ==
  (impl = Current /\ ~noThrow /\ AnyFailed) => RejectsNext

\* The current revision has rejected while a sibling callback was in flight
\* and the throttle delay had not elapsed.
C20_CurrentWitness ==
  /\ impl = Current /\ ~noThrow /\ throttleSeconds > 0
  /\ Done /\ returned.state = "rejected"
  /\ InFlight # {}
  /\ timer.state = "pending" /\ now < timer.due

\* The invocation whose callback failed first in time.
FirstFailedCall ==
  settleOrder[CHOOSE i \in DOMAIN settleOrder :
                /\ Failed(settleOrder[i])
                /\ \A j \in 1..(i - 1) : ~Failed(settleOrder[j])]

\* The call has rejected with the error of the callback that failed first in
\* time, in chunk-mode the lowest-index failing chunk.
RejectedWithFirstInTime ==
  /\ returned.state = "rejected"
  /\ returned.reason = calls[FirstFailedCall].promise.reason
  /\ mode = "chunk" =>
       \A c \in DOMAIN calls : Failed(c) => UnitOf(FirstFailedCall) <= UnitOf(c)

\* C21: a fail-fast call (noThrow false) during which callbacks failed rejects
\* with the error of the callback that rejected first in time: in item-mode
\* that may be an item with a higher index than another failing item of the
\* chunk, in chunk-mode it is always the lowest-index failing chunk.
C21_RejectsWithFirstInTime ==
  (~noThrow /\ Done /\ AnyFailed) => RejectedWithFirstInTime

\* C21 for the current revision alone (SpecCurrent).
C21_CurrentRejectsWithFirstInTime ==
  (impl = Current /\ ~noThrow /\ Done /\ AnyFailed) => RejectedWithFirstInTime

\* The current revision has rejected with the error of the higher-index item
\* of two failing items of a chunk.
C21_CurrentWitness ==
  /\ impl = Current /\ mode = "item" /\ ~noThrow
  /\ Done /\ returned.state = "rejected"
  /\ \E c, d \in DOMAIN calls :
       /\ Failed(c) /\ Failed(d)
       /\ ChunkOfCall(c) = ChunkOfCall(d)
       /\ UnitOf(c) < UnitOf(d)
       /\ d = FirstFailedCall
       /\ calls[c].promise.reason # calls[d].promise.reason
       /\ returned.reason = calls[d].promise.reason

\* Every item of the chunk of invocation c has had its callback invoked.
WholeChunkInvoked(c) ==
  \A u \in 1..NumUnits : ChunkOfUnit(u) = ChunkOfCall(c) => u \in InvokedUnits

\* C22: in item-mode the callbacks of a chunk are all invoked before the loop
\* waits for any of them, so in fail-fast mode (noThrow false) the items that
\* follow a failing item in its chunk still have their callback invoked, while
\* no item of a later chunk has.
C22_WholeChunkThenStop ==
  mode = "item" =>
     /\ \A c \in DOMAIN calls : WholeChunkInvoked(c)
     /\ ~noThrow =>
          \A c, d \in DOMAIN calls : Failed(c) => ChunkOfCall(d) <= ChunkOfCall(c)

\* C22 for the current revision alone (SpecCurrent).
C22_CurrentWholeChunkThenStop ==
  (impl = Current /\ mode = "item") =>
     /\ \A c \in DOMAIN calls : WholeChunkInvoked(c)
     /\ ~noThrow =>
          \A c, d \in DOMAIN calls : Failed(c) => ChunkOfCall(d) <= ChunkOfCall(c)

\* The current revision with every item of a chunk of two in flight at once.
C22_CurrentAllInFlight ==
  /\ impl = Current /\ mode = "item" /\ chunkSize = 2 /\ Len(allItems) = 3
  /\ Len(calls) = 2 /\ InFlight = {1, 2}

\* The current revision, fail-fast: the first item of a chunk threw at once,
\* the item after it was invoked all the same, the third item never is.
C22_CurrentFollowerInvoked ==
  /\ impl = Current /\ mode = "item" /\ ~noThrow
  /\ chunkSize = 2 /\ Len(allItems) = 3
  /\ Done /\ Len(calls) = 2
  /\ Failed(1) /\ calls[1].sync /\ calls[2].start = calls[1].start

\* The callbacks of the chunk the loop is waiting for have all settled.
CurrentWorkSettled ==
  \A c \in DOMAIN calls : ChunkOfCall(c) = index => c \notin InFlight

\* C23: with throttleSeconds = s > 0 the delay never gates its own chunk: the
\* callbacks of the first chunk are invoked when the call is made, those of
\* every chunk at the moment its delay is started, and a chunk is started no
\* later than the delays of the chunks before it; when the delay has elapsed
\* before the processing settles, the loop goes on as soon as the processing
\* settles, with no further wait.
C23_DelayNeverGatesOwnChunk ==
  throttleSeconds > 0 =>
     /\ \A c \in DOMAIN calls :
          /\ ChunkOfCall(c) = 0 => calls[c].start = 0
          /\ calls[c].start <= ChunkOfCall(c) * throttleSeconds * MsPerSecond
     /\ (pc = "await" /\ timer.state = "pending") =>
          \A c \in DOMAIN calls :
             ChunkOfCall(c) = index =>
                calls[c].start + throttleSeconds * MsPerSecond = timer.due
     /\ (pc = "await" /\ timer.state = "fired" /\ CurrentWorkSettled) => Runnable

C23_Witness ==
  /\ throttleSeconds > 0 /\ pc = "await"
  /\ timer.state = "fired"
  /\ index = 1
  /\ \E c \in InFlight :
       /\ ChunkOfCall(c) = 1
       /\ calls[c].start = throttleSeconds * MsPerSecond
       /\ now = 2 * throttleSeconds * MsPerSecond

\* C24: with throttleSeconds = 0 no delay is started or awaited: there is never
\* a timer, no time has to pass, and the loop goes on as soon as the callbacks
\* of the current chunk have settled.
C24_NoTimerWithoutThrottle ==
  throttleSeconds = 0 =>
     /\ timer = NoTimer
     /\ now = 0
     /\ (pc = "await" /\ CurrentWorkSettled) => Runnable

C24_Witness ==
  /\ throttleSeconds = 0 /\ Done /\ Resolved
  /\ NumChunks >= 2
  /\ Len(calls) = NumUnits
  /\ timer = NoTimer /\ now = 0

----------------------------------------------------------------------------
\* Progress

\* The call is made, the event loop runs every continuation that is ready and
\* every timer that is due, time passes, and every callback invoked settles
\* in the end.
Fairness ==
  /\ WF_vars(Call)
  /\ WF_vars(ItemResume)
  /\ WF_vars(ChunkResume)
  /\ WF_vars(TimerFire)
  /\ WF_vars(Tick)
  /\ WF_vars(\E c \in DOMAIN calls : Settle(c))

FairSpec == Spec /\ Fairness

FairSpecCurrent == SpecCurrent /\ Fairness

\* The call has settled as its mode prescribes: resolved in collect mode; in
\* fail-fast mode resolved if no callback failed and rejected if one did.
SettledAsPrescribed ==
  /\ Done
  /\ IF noThrow THEN Resolved
     ELSE IF AnyFailed THEN returned.state = "rejected" ELSE Resolved

\* C25: if every callback invoked settles in the end and every delay elapses,
\* the call settles in the end, exactly once: it resolves in collect mode, and
\* in fail-fast mode it resolves when no callback failed and rejects when one
\* did.
C25_Terminates ==
  /\ <>SettledAsPrescribed
  /\ [][returned.state # "pending" => returned' = returned]_vars

\* C25 for the current revision alone (FairSpecCurrent).
C25_CurrentTerminates ==
  /\ <>(impl = Current /\ SettledAsPrescribed)
  /\ [][returned.state # "pending" => returned' = returned]_vars

\* Both revisions settle in the end, whatever the value.
C25_BothSettle == <>Done

\* The rejection of the wrapper of invocation c was delivered to the
\* Promise.all of its chunk, which is the handler of every wrapper promise.
Handled(c) ==
  /\ calls[c].chunk = index
  /\ calls[c].pos + 1 \in DOMAIN itemPromises
  /\ itemPromises[calls[c].pos + 1] = Rejected(calls[c].promise.reason)

\* Two or more items of one chunk have failed.
SiblingsFailed ==
  \E c, d \in DOMAIN calls :
     c # d /\ Failed(c) /\ Failed(d) /\ ChunkOfCall(c) = ChunkOfCall(d)

\* C26: in item-mode fail-fast (noThrow false), when two or more items of a
\* chunk fail, the call rejects once, with the first rejection, and every
\* later sibling rejection is absorbed by the handler Promise.all holds on it:
\* none is left unhandled, with or without throttling.
C26_SiblingRejectionsAbsorbed ==
  (mode = "item" /\ ~noThrow /\ SiblingsFailed) =>
     /\ RejectsNext
     /\ Done => returned.reason = calls[FirstFailedCall].promise.reason
     /\ \A c \in DOMAIN calls : Failed(c) => Handled(c)

\* C26 for the current revision alone (SpecCurrent).
C26_CurrentSiblingRejectionsAbsorbed ==
  (impl = Current /\ mode = "item" /\ ~noThrow /\ SiblingsFailed) =>
     /\ RejectsNext
     /\ Done => returned.reason = calls[FirstFailedCall].promise.reason
     /\ \A c \in DOMAIN calls : Failed(c) => Handled(c)

\* The current revision, throttled: a sibling failed after the call had
\* rejected with another item's error.
C26_CurrentWitness ==
  /\ impl = Current /\ mode = "item" /\ ~noThrow /\ throttleSeconds > 0
  /\ Done /\ SiblingsFailed
  /\ Len(settleOrder) >= 2
  /\ Failed(settleOrder[Len(settleOrder)])
  /\ settleOrder[Len(settleOrder)] # FirstFailedCall
  /\ returned.reason # calls[settleOrder[Len(settleOrder)]].promise.reason

\* C27: whenever the call resolves (collect mode, or fail-fast mode without a
\* failure) every callback that was invoked has settled: none is in flight
\* when the result is delivered.
C27_QuiescentAtReturn ==
  (Done /\ Resolved) => InFlight = {}

C27_Witness ==
  /\ Done /\ Resolved /\ noThrow
  /\ mode = "item" /\ chunkSize = 2
  /\ Len(calls) = 3
  /\ AnyFailed
  /\ \E c \in DOMAIN calls : Succeeded(c) /\ ~calls[c].sync
  /\ InFlight = {}

====
